---- MODULE Spec2Model ----
(***************************************************************************)
(* A model of choochoo's FIT profile (src/choochoo/fit/profile.py): the    *)
(* Type Registry, the Message Catalog and the decoding of a record by      *)
(* Message.raw_to_internal.                                                *)
(*                                                                         *)
(* Python values are tagged records (field t): None, int, str, bool, list, *)
(* datetime.  A raised exception is the pseudo-value Raise(kind).          *)
(* A Python int is unbounded, so it is kept as a sign and a magnitude in   *)
(* base 256, least significant digit first, without high zero digits.      *)
(***************************************************************************)
EXTENDS Integers, Sequences, FiniteSets, TLC

VARIABLES
    \* the type-level decode under test (SpecTypes)
    t_type, t_data, t_count, t_endian, t_result,
    \* the Message Catalog (Messages.__profile_to_message / __number_to_message)
    profile_to_message, number_to_message,
    \* one call of Message.raw_to_internal: its arguments, its locals, its position
    pc, self, definition, data, dynamic_cb, offset, idx, message, raised,
    \* history of the last loop iteration, and of the last catalog lookup
    last, found,
    \* compilation of the profile: the position of the driver, the sheet it walks,
    \* what is left of the peekable iterator over its rows, the Type Registry
    c_pc, c_sheet, c_rows, c_types, c_raised,
    \* history of the walk: the blocks started so far, each with its header's
    \* index in the sheet and the number of rows left when its compilation ended
    c_blocks,
    \* history of the registry: the last call on it, and the first type installed
    \* under each name
    r_last, r_first

decode_vars == <<pc, self, definition, data, dynamic_cb, offset, idx, message, raised, last>>
catalog_vars == <<profile_to_message, number_to_message>>
type_vars == <<t_type, t_data, t_count, t_endian, t_result>>
compile_vars == <<c_pc, c_sheet, c_rows, c_types, c_raised, c_blocks, r_last, r_first>>
vars == <<t_type, t_data, t_count, t_endian, t_result,
          profile_to_message, number_to_message,
          pc, self, definition, data, dynamic_cb, offset, idx, message, raised,
          last, found,
          c_pc, c_sheet, c_rows, c_types, c_raised, c_blocks, r_last, r_first>>

LITTLE == 0
BIG == 1
HEADER_GLOBAL_TYPE == -1

(***************************************************************************)
(* Python values                                                           *)
(***************************************************************************)
None == [t |-> "None"]
PyStr(s) == [t |-> "str", s |-> s]
PyBool(b) == [t |-> "bool", b |-> b]
PyList(v) == [t |-> "list", v |-> v]
PyInt(neg, mag) == [t |-> "int", neg |-> neg, mag |-> mag]
Raise(e) == [t |-> "raise", e |-> e]
IsRaise(v) == v.t = "raise"

RECURSIVE NatDigits(_)
NatDigits(n) == IF n = 0 THEN <<>> ELSE <<n % 256>> \o NatDigits(n \div 256)

\* the Python int of a small TLA+ integer
IntOf(n) == IF n < 0 THEN PyInt(TRUE, NatDigits(-n)) ELSE PyInt(FALSE, NatDigits(n))

RECURSIVE Normalise(_)
Normalise(mag) ==
    IF mag = <<>> THEN <<>>
    ELSE IF mag[Len(mag)] = 0 THEN Normalise(SubSeq(mag, 1, Len(mag) - 1))
    ELSE mag

Reverse(s) == [i \in 1..Len(s) |-> s[Len(s) + 1 - i]]

Repeat(s, n) == [i \in 1..(n * Len(s)) |-> s[((i - 1) % Len(s)) + 1]]

RECURSIVE Pow2(_)
Pow2(n) == IF n = 0 THEN 1 ELSE 2 * Pow2(n - 1)

\* 2 ** n - 1 as a magnitude
Pow2Minus1(n) ==
    Repeat(<<255>>, n \div 8) \o (IF n % 8 = 0 THEN <<>> ELSE <<Pow2(n % 8) - 1>>)

(***************************************************************************)
(* str(value)                                                              *)
(***************************************************************************)
DigitChar == <<"0", "1", "2", "3", "4", "5", "6", "7", "8", "9">>

\* long division of a magnitude (most significant digit first) by 10:
\* <<quotient digits, remainder>>
RECURSIVE DivMod10(_, _)
DivMod10(be, carry) ==
    IF be = <<>> THEN <<<<>>, carry>>
    ELSE LET cur == carry * 256 + Head(be)
             rest == DivMod10(Tail(be), cur % 10)
         IN  <<<<cur \div 10>> \o rest[1], rest[2]>>

RECURSIVE Decimal(_)
Decimal(mag) ==
    IF mag = <<>> THEN ""
    ELSE LET qr == DivMod10(Reverse(mag), 0)
         IN  Decimal(Normalise(Reverse(qr[1]))) \o DigitChar[qr[2] + 1]

StrInt(v) == IF v.mag = <<>> THEN "0"
             ELSE (IF v.neg THEN "-" ELSE "") \o Decimal(v.mag)

Pad2(n) == IF n < 10 THEN "0" \o ToString(n) ELSE ToString(n)
Pad4(n) == IF n < 10 THEN "000" \o ToString(n)
           ELSE IF n < 100 THEN "00" \o ToString(n)
           ELSE IF n < 1000 THEN "0" \o ToString(n)
           ELSE ToString(n)

StrDatetime(v) ==
    Pad4(v.year) \o "-" \o Pad2(v.month) \o "-" \o Pad2(v.day) \o " "
    \o Pad2(v.hour) \o ":" \o Pad2(v.minute) \o ":" \o Pad2(v.second)
    \o (IF v.utc THEN "+00:00" ELSE "")

RECURSIVE Str(_)
RECURSIVE JoinRepr(_)
\* ', '.join(repr(x) for x in items), for the items a decode puts in a list
JoinRepr(items) ==
    IF items = <<>> THEN ""
    ELSE IF Len(items) = 1 THEN Str(items[1])
    ELSE Str(items[1]) \o ", " \o JoinRepr(Tail(items))

Str(v) ==
    CASE v.t = "None" -> "None"
      [] v.t = "int" -> StrInt(v)
      [] v.t = "str" -> v.s
      [] v.t = "bool" -> (IF v.b THEN "True" ELSE "False")
      [] v.t = "list" -> "[" \o JoinRepr(v.v) \o "]"
      [] v.t = "datetime" -> StrDatetime(v)

(***************************************************************************)
(* Python dicts: functions; ErrorDict.__getitem__ raises KeyError on a miss *)
(***************************************************************************)
EmptyDict == <<>>
DictSet(d, k, v) == (k :> v) @@ d
ErrorDict_getitem(d, item) == IF item \in DOMAIN d THEN d[item] ELSE Raise("KeyError")

\* ErrorDict.__getitem__ of a key that is a tuple of two: on a miss
\* self.__error_msg % item has one %r for two arguments
ErrorDict_getitem_tuple(d, item) == IF item \in DOMAIN d THEN d[item] ELSE Raise("TypeError")

\* v = ...; Op(v): a local variable assigned once and read by what follows
Bind(v, Op(_)) == Op(v)

(***************************************************************************)
(* struct.unpack and the bad (missing value) patterns: StructSupport       *)
(***************************************************************************)
Min(a, b) == IF a < b THEN a ELSE b

\* bytes of `value` (a magnitude), least significant first (LITTLE) and most
\* significant first (BIG): bad[endian + 1]
pack_bad(size, value) ==
    LET little == [i \in 1..size |-> IF i <= Len(value) THEN value[i] ELSE 0]
    IN  <<little, Reverse(little)>>

\* data[size*i : size*(i+1)], with Python's clipping of a slice to the data
Slice(s, from, to) == SubSeq(s, from + 1, Min(to, Len(s)))

\* is_bad with any in place of all
is_bad_any(data_, bad) ==
    LET size == Len(bad)
        count == Len(data_) \div size
    IN  \E i \in 0..(count - 1) : bad = Slice(data_, size * i, size * (i + 1))

is_bad(data_, bad) ==
    LET size == Len(bad)
        count == Len(data_) \div size
    IN  \A i \in 0..(count - 1) : bad = Slice(data_, size * i, size * (i + 1))

RECURSIVE AddOne(_)
AddOne(mag) ==
    IF mag = <<>> THEN <<1>>
    ELSE IF Head(mag) = 255 THEN <<0>> \o AddOne(Tail(mag))
    ELSE <<Head(mag) + 1>> \o Tail(mag)

\* one item of struct.unpack: format letters b h i q are two's complement,
\* B H I Q unsigned; e f d are floats, kept as their bytes
UnpackItem(letter, bytes, endian) ==
    LET le == IF endian = LITTLE THEN bytes ELSE Reverse(bytes)
    IN  CASE letter \in {"B", "H", "I", "Q"} -> PyInt(FALSE, Normalise(le))
          [] letter \in {"b", "h", "i", "q"} ->
                IF le[Len(le)] >= 128
                THEN PyInt(TRUE, Normalise(AddOne([i \in 1..Len(le) |-> 255 - le[i]])))
                ELSE PyInt(FALSE, Normalise(le))
          [] letter \in {"e", "f", "d"} -> [t |-> "float", bits |-> Reverse(le)]

\* unpack(formats[endian] % count, data): a tuple, or struct.error unless the
\* data is exactly count items long
unpack(letter, size, count, data_, endian) ==
    IF Len(data_) # count * size THEN Raise("struct.error")
    ELSE [t |-> "tuple",
          v |-> [i \in 1..count |->
                    UnpackItem(letter, Slice(data_, size * (i - 1), size * i), endian)]]

StructSupport_unpack(type, data_, count, endian) ==
    IF is_bad(data_, type.bad[endian + 1]) THEN None
    ELSE LET value == unpack(type.format, type.size, count,
                             Slice(data_, 0, count * type.size), endian)
         IN  IF IsRaise(value) THEN value
             ELSE IF count = 1 THEN value.v[1] ELSE PyList(value.v)

(***************************************************************************)
(* The types                                                               *)
(***************************************************************************)
\* the widths the name patterns are tried on (\d{1,2} matches any of 0..99)
PatternBits == {8, 12, 16, 24, 32, 64}

\* AutoInteger.pattern  ^([su]?)int(\d{1,2})(z?)$  as the matches it yields
AutoInteger_pattern ==
    { [name |-> g1 \o "int" \o ToString(g2) \o g3, g1 |-> g1, g2 |-> g2, g3 |-> g3] :
        g1 \in {"s", "u", ""}, g2 \in PatternBits, g3 \in {"", "z"} }

\* AutoFloat.pattern  ^float(\d{1,2})$
AutoFloat_pattern ==
    { [name |-> "float" \o ToString(g1), g1 |-> g1] : g1 \in PatternBits }

Matches(pattern, name) == \E m \in pattern : m.name = name
Match(pattern, name) == CHOOSE m \in pattern : m.name = name

Integer_size_to_format == [s \in {1, 2, 4, 8} |->
    CASE s = 1 -> "b" [] s = 2 -> "h" [] s = 4 -> "i" [] s = 8 -> "q"]
Float_size_to_format == [s \in {2, 4, 8} |->
    CASE s = 2 -> "e" [] s = 4 -> "f" [] s = 8 -> "d"]
Upper(letter) ==
    CASE letter = "b" -> "B" [] letter = "h" -> "H" [] letter = "i" -> "I" [] letter = "q" -> "Q"

String(name) == [t |-> "type", cls |-> "String", name |-> name, size |-> 1]
Boolean(name) == [t |-> "type", cls |-> "Boolean", name |-> name, size |-> 1]

AutoInteger(name) ==
    LET match == Match(AutoInteger_pattern, name)
        signed == match.g1 # "u"
        bits == match.g2
        size == bits \div 8
        format == Integer_size_to_format[size]
    IN  IF bits % 8 # 0 THEN Raise("Exception")
        ELSE IF size \notin DOMAIN Integer_size_to_format THEN Raise("Exception")
        ELSE [t |-> "type", cls |-> "AutoInteger", name |-> name, size |-> size, signed |-> signed,
              format |-> IF signed THEN format ELSE Upper(format),
              bad |-> pack_bad(size, IF match.g3 = "z" THEN <<>>
                                      ELSE Pow2Minus1(bits - (IF signed THEN 1 ELSE 0)))]

AliasInteger(name, spec) ==
    [AutoInteger(spec) EXCEPT !.name = name, !.cls = "AliasInteger"]

Date(name, utc) ==
    LET alias == AliasInteger(name, "uint32")
    IN  [t |-> "type", cls |-> "Date", name |-> name, size |-> alias.size, signed |-> alias.signed,
         format |-> alias.format, bad |-> alias.bad, utc |-> utc]

AutoFloat(name) ==
    LET match == Match(AutoFloat_pattern, name)
        bits == match.g1
        size == bits \div 8
    IN  IF bits % 8 # 0 THEN Raise("Exception")
        ELSE IF size \notin DOMAIN Float_size_to_format THEN Raise("Exception")
        ELSE [t |-> "type", cls |-> "AutoFloat", name |-> name, size |-> size,
              format |-> Float_size_to_format[size],
              bad |-> pack_bad(size, Pow2Minus1(bits))]

(***************************************************************************)
(* raw_to_internal of each type                                            *)
(***************************************************************************)
\* chr(b) for the bytes 32..95 of ASCII (space to underscore)
Printable == <<
    " ", "!", "\"", "#", "$", "%", "&", "'", "(", ")", "*", "+",
    ",", "-", ".", "/", "0", "1", "2", "3", "4", "5", "6", "7",
    "8", "9", ":", ";", "<", "=", ">", "?", "@", "A", "B", "C",
    "D", "E", "F", "G", "H", "I", "J", "K", "L", "M", "N", "O",
    "P", "Q", "R", "S", "T", "U", "V", "W", "X", "Y", "Z", "[",
    "\\", "]", "^", "_">>
Chr(b) == Printable[b - 31]

RECURSIVE JoinChr(_)
JoinChr(bytes) == IF bytes = <<>> THEN "" ELSE Chr(Head(bytes)) \o JoinChr(Tail(bytes))

\* str(b''.join(unpack('%dc' % count, bytes)), encoding='utf-8'); a byte of
\* 0x80 or more that starts no valid sequence fails to decode
String_raw_to_internal(bytes, count) ==
    IF Len(bytes) # count THEN Raise("struct.error")
    ELSE IF \E i \in 1..Len(bytes) : bytes[i] >= 128 THEN Raise("UnicodeDecodeError")
    ELSE PyStr(JoinChr(bytes))

Boolean_raw_to_internal(bytes, count) ==
    LET bools == [i \in 1..Len(bytes) |-> PyBool(bytes[i] # 0)]
    IN  IF count = 1
        THEN (IF bools = <<>> THEN Raise("IndexError") ELSE bools[1])
        ELSE PyList(bools)

AutoInteger_raw_to_internal(type, data_, count, endian) ==
    StructSupport_unpack(type, data_, count, endian)

\* time > 0x10000000 in place of time >= 0x10000000
AtLeastThreshold_strict(time) ==
    /\ ~time.neg
    /\ \/ Len(time.mag) > 4
       \/ Len(time.mag) = 4 /\ time.mag[4] > 16
       \/ Len(time.mag) = 4 /\ time.mag[4] = 16 /\ \E i \in 1..3 : time.mag[i] # 0

\* time >= 0x10000000, for an int
AtLeastThreshold(time) ==
    /\ ~time.neg
    /\ \/ Len(time.mag) > 4
       \/ Len(time.mag) = 4 /\ time.mag[4] >= 16

\* the civil date of a day number counted from 1970-01-01
CivilFromDays(days) ==
    LET z == days + 719468
        era == z \div 146097
        doe == z - era * 146097
        yoe == (doe - (doe \div 1460) + (doe \div 36524) - (doe \div 146096)) \div 365
        doy == doe - (365 * yoe + (yoe \div 4) - (yoe \div 100))
        mp == (5 * doy + 2) \div 153
        d == doy - ((153 * mp + 2) \div 5) + 1
        m == IF mp < 10 THEN mp + 3 ELSE mp - 9
    IN  [year |-> yoe + era * 400 + (IF m <= 2 THEN 1 ELSE 0), month |-> m, day |-> d]

\* dt.datetime(1989, 12, 31, tzinfo=tz) + dt.timedelta(seconds=time), for a
\* time below 2 ** 32 (86400 = 128 * 675)
DatetimeAfter(time, utc) ==
    LET digit(i) == IF i <= Len(time.mag) THEN time.mag[i] ELSE 0
        n128 == (digit(1) \div 128) + 2 * digit(2) + 512 * digit(3) + 131072 * digit(4)
        days == n128 \div 675
        secs == (n128 % 675) * 128 + (digit(1) % 128)
        date == CivilFromDays(7304 + days)
    IN  [t |-> "datetime", year |-> date.year, month |-> date.month, day |-> date.day,
         hour |-> secs \div 3600, minute |-> (secs % 3600) \div 60, second |-> secs % 60,
         utc |-> utc]

Date_raw_to_internal(type, data_, count, endian) ==
    LET time == AutoInteger_raw_to_internal(type, data_, count, endian)
    IN  IF IsRaise(time) THEN time
        ELSE IF time.t # "int" THEN Raise("TypeError")
        ELSE IF AtLeastThreshold(time) THEN DatetimeAfter(time, type.utc)
        ELSE time

RECURSIVE Type_raw_to_internal(_, _, _, _)
Type_raw_to_internal(type, bytes, count, endian) ==
    CASE type.cls = "String" -> String_raw_to_internal(bytes, count)
      [] type.cls = "Boolean" -> Boolean_raw_to_internal(bytes, count)
      [] type.cls \in {"AutoInteger", "AliasInteger", "AutoFloat"} ->
            AutoInteger_raw_to_internal(type, bytes, count, endian)
      [] type.cls = "Date" -> Date_raw_to_internal(type, bytes, count, endian)
      [] type.cls = "Mapping" -> Type_raw_to_internal(type.base_type, bytes, count, endian)

(***************************************************************************)
(* profile_to_internal of each type (compile time)                         *)
(***************************************************************************)
\* int(cell, 0) for the literals the profile below is written with
IntLiterals == [lit \in {"0", "1", "2", "4", "5", "0x10"} |->
    CASE lit = "0" -> 0 [] lit = "1" -> 1 [] lit = "2" -> 2
      [] lit = "4" -> 4 [] lit = "5" -> 5 [] lit = "0x10" -> 16]

AutoInteger_int(cell) ==
    IF cell.t = "int" THEN cell
    ELSE IF cell.t = "str" /\ cell.s \in DOMAIN IntLiterals THEN IntOf(IntLiterals[cell.s])
    ELSE IF cell.t = "str" THEN Raise("ValueError")
    ELSE Raise("TypeError")

Type_profile_to_internal(type, cell_contents) ==
    CASE type.cls = "Mapping" -> ErrorDict_getitem(type._profile_to_internal, cell_contents)
      [] type.cls \in {"AutoInteger", "AliasInteger", "Date"} -> AutoInteger_int(cell_contents)
      [] type.cls = "String" -> PyStr(Str(cell_contents))

(***************************************************************************)
(* Types: the registry                                                     *)
(***************************************************************************)
BASE_TYPE_NAMES == <<"enum", "sint8", "uint8", "sint16", "uint16", "sint32", "uint32",
                     "string", "float32", "float64",
                     "uint8z", "uint16z", "uint32z", "byte", "sint64", "uint64", "uint64z">>

\* a step of compilation: the registry after it, and what it returned or raised
Step(types, result) == [types |-> types, result |-> result]

\* __add_type with the duplicate of equal size taking the place of the entry
Types_add_type_replace(types, type) ==
    IF type.name \in DOMAIN types.profile_to_type
       /\ types.profile_to_type[type.name].size # type.size
    THEN Step(types, Raise("Exception"))
    ELSE Step([types EXCEPT !.profile_to_type = DictSet(@, type.name, type)], None)

Types_add_type(types, type) ==
    IF type.name \in DOMAIN types.profile_to_type
    THEN (IF types.profile_to_type[type.name].size = type.size
          THEN Step(types, None)
          ELSE Step(types, Raise("Exception")))
    ELSE Step([types EXCEPT !.profile_to_type = DictSet(@, type.name, type)], None)

\* profile_to_type that returns the type it created without adding it
Types_profile_to_type_forget(types, name, auto_create) ==
    IF name \in DOMAIN types.profile_to_type
    THEN Step(types, types.profile_to_type[name])
    ELSE IF auto_create /\ (Matches(AutoFloat_pattern, name) \/ Matches(AutoInteger_pattern, name))
    THEN Step(types, IF Matches(AutoFloat_pattern, name) THEN AutoFloat(name)
                     ELSE AutoInteger(name))
    ELSE Step(types, Raise("KeyError"))

Types_profile_to_type(types, name, auto_create) ==
    IF name \in DOMAIN types.profile_to_type
    THEN Step(types, types.profile_to_type[name])
    ELSE IF auto_create /\ (Matches(AutoFloat_pattern, name) \/ Matches(AutoInteger_pattern, name))
    THEN Bind(IF Matches(AutoFloat_pattern, name) THEN AutoFloat(name) ELSE AutoInteger(name),
         LAMBDA type :
         Bind(IF IsRaise(type) THEN Step(types, type) ELSE Types_add_type(types, type),
         LAMBDA added :
             IF IsRaise(added.result) THEN added
             ELSE Step(added.types, ErrorDict_getitem(added.types.profile_to_type, name))))
    ELSE Step(types, Raise("KeyError"))

\* one iteration of  for name in BASE_TYPE_NAMES
AddBaseType(types, name) ==
    Bind(Types_profile_to_type(types, name, TRUE),
    LAMBDA created :
        IF IsRaise(created.result) THEN created
        ELSE Step([created.types EXCEPT !.base_types =
                      Append(@, Types_profile_to_type(created.types, name, FALSE).result)],
                  None))

\* the steps below take the registry and what the step before raised, if it did;
\* the names are taken in their order, first half before second half, which
\* keeps the evaluation shallow
RECURSIVE AddBaseTypes(_, _)
AddBaseTypes(step, names) ==
    IF names = <<>> \/ IsRaise(step.result) THEN step
    ELSE IF Len(names) = 1 THEN AddBaseType(step.types, names[1])
    ELSE AddBaseTypes(AddBaseTypes(step, SubSeq(names, 1, Len(names) \div 2)),
                      SubSeq(names, (Len(names) \div 2) + 1, Len(names)))

RECURSIVE AddTypes(_, _)
AddTypes(step, new) ==
    IF new = <<>> \/ IsRaise(step.result) THEN step
    ELSE AddTypes(Types_add_type(step.types, Head(new)), Tail(new))

Types_add_known_types(types) ==
    AddTypes(AddBaseTypes(AddTypes(Step(types, None),
                                   <<String("string"), AliasInteger("enum", "uint8"),
                                     AliasInteger("byte", "uint8")>>),
                          BASE_TYPE_NAMES),
             <<Boolean("bool"), Date("date_time", TRUE), Date("local_date_time", FALSE)>>).types

\* the registry of Types.__init__ after self.__add_known_types()
KnownTypes == Types_add_known_types([profile_to_type |-> EmptyDict, base_types |-> <<>>])

(***************************************************************************)
(* Rows of the profile's sheets: a row is the tuple of its cells (row[i]   *)
(* of the source is Cell(row, i)); `rows` is what is left of the peekable  *)
(* iterator, rows.prepend(row) puts a row back in front.  A comma          *)
(* separated cell (cells 11 and 12 of a Messages row) is kept as the       *)
(* sequence of its items, split(',') and strip() applied.                  *)
(***************************************************************************)
Cell(row, i) == row[i + 1]
Truthy(cell) == cell # None /\ cell # PyStr("") /\ cell # IntOf(0)
Items(v) == [t |-> "items", v |-> v]

\* row[0][0].isupper(), for the header cells the profile below is written with
UpperCells == {PyStr("Type Name"), PyStr("Message Name"), PyStr("COMMON MESSAGES")}
FirstIsUpper(cell) == cell \in UpperCells

(***************************************************************************)
(* Mapping                                                                 *)
(***************************************************************************)
Mapping_add_mapping(mapping, row) ==
    Bind(Type_profile_to_internal(mapping.base_type, Cell(row, 3)),
    LAMBDA internal :
        IF IsRaise(internal) THEN internal
        ELSE [mapping EXCEPT !._profile_to_internal = DictSet(@, Cell(row, 2), internal),
                             !._internal_to_profile = DictSet(@, internal, Cell(row, 2))])

\* the loop of Mapping.__init__: <<the mapping (or what was raised), the rows left>>
RECURSIVE Mapping_rows(_, _)
Mapping_rows(mapping, rows) ==
    IF rows = <<>> THEN <<mapping, rows>>
    ELSE IF \/ Truthy(Cell(Head(rows), 0))
            \/ Cell(Head(rows), 2) = None
            \/ Cell(Head(rows), 3) = None
    THEN <<mapping, rows>>
    ELSE Bind(Mapping_add_mapping(mapping, Head(rows)),
         LAMBDA added :
             IF IsRaise(added) THEN <<added, Tail(rows)>>
             ELSE Mapping_rows(added, Tail(rows)))

\* Mapping(log, row, rows, types): [types, result, rows]
Mapping(row, rows, types) ==
    Bind(Types_profile_to_type(types, Cell(row, 1).s, TRUE),
    LAMBDA base :
        IF IsRaise(base.result) THEN [types |-> base.types, result |-> base.result, rows |-> rows]
        ELSE Bind(Mapping_rows([t |-> "type", cls |-> "Mapping", name |-> Cell(row, 0).s,
                                size |-> base.result.size, base_type |-> base.result,
                                _profile_to_internal |-> EmptyDict,
                                _internal_to_profile |-> EmptyDict], rows),
             LAMBDA walked :
                 [types |-> base.types, result |-> walked[1], rows |-> walked[2]]))

\* the loop of Types.__init__ over the rows of the Types sheet
RECURSIVE Types_rows(_, _)
Types_rows(types, rows) ==
    IF rows = <<>> THEN Step(types, None)
    ELSE IF Truthy(Cell(Head(rows), 0)) /\ ~FirstIsUpper(Cell(Head(rows), 0))
    THEN Bind(Mapping(Head(rows), Tail(rows), types),
         LAMBDA made :
         Bind(IF IsRaise(made.result) THEN Step(made.types, made.result)
              ELSE Types_add_type(made.types, made.result),
         LAMBDA added :
             IF IsRaise(added.result) THEN added
             ELSE Types_rows(added.types, made.rows)))
    ELSE Types_rows(types, Tail(rows))

Types(sheet) ==
    Types_rows(KnownTypes, sheet)

(***************************************************************************)
(* Fields.  A field object is a record; `references` holds the names of    *)
(* the referenced fields of the same message.  Only a DynamicMessageField  *)
(* has the attributes references and dynamic.                              *)
(***************************************************************************)
MessageField(cls, name, number, units, type) ==
    [t |-> "field", cls |-> cls, name |-> name, number |-> number,
     units |-> IF Truthy(units) THEN units.s ELSE "",
     is_dynamic |-> (number = None), type |-> type,
     dynamic_tmp_data |-> <<>>, dynamic |-> EmptyDict, references |-> {}]

HasDynamicAttributes(field) == field.cls = "DynamicMessageField"

\* RowMessageField(log, row, types): Step, the result a field
RowMessageField(cls, row, types) ==
    Bind(IF Cell(row, 1) # None THEN AutoInteger_int(Cell(row, 1)) ELSE None,
    LAMBDA number :
    Bind(Types_profile_to_type(types, Cell(row, 3).s, TRUE),
    LAMBDA type :
        IF IsRaise(number) THEN Step(types, number)
        ELSE IF IsRaise(type.result) THEN type
        ELSE Step(type.types,
                  MessageField(cls, Cell(row, 2).s, number, Cell(row, 8), type.result))))

\* zip(row[11].split(','), row[12].split(',')) saved by __save_dynamic
RECURSIVE SaveDynamic(_, _, _, _)
SaveDynamic(field, names, values, row) ==
    IF names = <<>> \/ values = <<>> THEN field
    ELSE SaveDynamic([field EXCEPT !.is_dynamic = TRUE,
                                   !.dynamic_tmp_data = Append(@, <<Head(names), Head(values), row>>)],
                     Tail(names), Tail(values), row)

\* the peek loop of DynamicMessageField.__init__: <<field or raised, rows left>>
RECURSIVE DynamicMessageField_rows(_, _)
DynamicMessageField_rows(field, rows) ==
    IF rows = <<>> THEN <<field, rows>>
    ELSE IF Truthy(Cell(Head(rows), 2)) /\ Cell(Head(rows), 1) = None
    THEN IF Cell(Head(rows), 11).t # "items" \/ Cell(Head(rows), 12).t # "items"
         THEN <<Raise("AttributeError"), Tail(rows)>>
         ELSE DynamicMessageField_rows(
                  SaveDynamic(field, Cell(Head(rows), 11).v, Cell(Head(rows), 12).v, Head(rows)),
                  Tail(rows))
    ELSE <<field, rows>>

\* DynamicMessageField(log, row, rows, types): [types, result, rows]
DynamicMessageField(row, rows, types) ==
    Bind(RowMessageField("DynamicMessageField", row, types),
    LAMBDA made :
        IF IsRaise(made.result) THEN [types |-> made.types, result |-> made.result, rows |-> rows]
        ELSE Bind(DynamicMessageField_rows(made.result, rows),
             LAMBDA walked :
                 [types |-> made.types, result |-> walked[1], rows |-> walked[2]]))

(***************************************************************************)
(* Messages.  The field objects of a message are kept in `fields` and the  *)
(* two indexes hold positions in it, so that both see one object.          *)
(***************************************************************************)
NoAttribute == [t |-> "no attribute"]

Message(cls, name, number) ==
    [t |-> "message", cls |-> cls, name |-> name,
     number |-> IF number # None THEN number ELSE NoAttribute,
     fields |-> <<>>, _profile_to_field |-> EmptyDict, _number_to_field |-> EmptyDict]

Message_add_field(msg, field) ==
    LET at == Len(msg.fields) + 1
    IN  [msg EXCEPT !.fields = Append(@, field),
                    !._profile_to_field = DictSet(@, field.name, at),
                    !._number_to_field = DictSet(@, field.number, at)]

Message_profile_to_field(msg, name) ==
    IF name \in DOMAIN msg._profile_to_field THEN msg.fields[msg._profile_to_field[name]]
    ELSE Raise("KeyError")

Message_number_to_field(msg, value) ==
    IF value \in DOMAIN msg._number_to_field THEN msg.fields[msg._number_to_field[value]]
    ELSE Raise("KeyError")

\* DynamicMessageField._complete_dynamic, for the field at `at` of msg, from the
\* k-th saved tuple on: [types, result], the result the message or what was raised
RECURSIVE Field_complete_dynamic(_, _, _, _)
Field_complete_dynamic(msg, at, k, types) ==
    IF k > Len(msg.fields[at].dynamic_tmp_data) THEN Step(types, msg)
    ELSE Bind(msg.fields[at].dynamic_tmp_data[k],
         LAMBDA tmp :
         Bind(Message_profile_to_field(msg, tmp[1]),
         LAMBDA reference :
         Bind(IF IsRaise(reference) THEN reference
              ELSE Type_profile_to_internal(reference.type, PyStr(tmp[2])),
         LAMBDA value :
         Bind(RowMessageField("RowMessageField", tmp[3], types),
         LAMBDA made :
             IF IsRaise(value) THEN Step(types, value)
             ELSE IF IsRaise(made.result) THEN made
             ELSE Field_complete_dynamic(
                      [msg EXCEPT !.fields[at].references = @ \cup {reference.name},
                                  !.fields[at].dynamic = DictSet(@, <<tmp[1], value>>, made.result)],
                      at, k + 1, made.types)))))

\* RowMessage.__complete_dynamic: the fields of the name index, in order
RECURSIVE RowMessage_complete_dynamic(_, _, _)
RowMessage_complete_dynamic(msg, at, types) ==
    IF at > Len(msg.fields) THEN Step(types, msg)
    ELSE IF /\ \E n \in DOMAIN msg._profile_to_field : msg._profile_to_field[n] = at
            /\ msg.fields[at].is_dynamic
    THEN Bind(Field_complete_dynamic(msg, at, 1, types),
         LAMBDA done :
             IF IsRaise(done.result) THEN done
             ELSE RowMessage_complete_dynamic(done.result, at + 1, done.types))
    ELSE RowMessage_complete_dynamic(msg, at + 1, types)

\* the loop of RowMessage.__init__: [types, result, rows]
RECURSIVE RowMessage_rows(_, _, _)
RowMessage_rows(msg, rows, types) ==
    IF rows = <<>> THEN [types |-> types, result |-> msg, rows |-> rows]
    ELSE IF ~Truthy(Cell(Head(rows), 2)) THEN [types |-> types, result |-> msg, rows |-> rows]
    ELSE Bind(DynamicMessageField(Head(rows), Tail(rows), types),
         LAMBDA made :
             IF IsRaise(made.result) THEN made
             ELSE RowMessage_rows(Message_add_field(msg, made.result), made.rows, made.types))

\* NumberedMessage.__init__ with the except branch giving the number 0 instead of None
NumberedMessage_number_zero(name, types) ==
    Bind(Types_profile_to_type(types, "mesg_num", FALSE).result,
    LAMBDA mesg_num :
    Bind(IF IsRaise(mesg_num) THEN mesg_num
         ELSE Type_profile_to_internal(mesg_num, PyStr(name)),
    LAMBDA number :
        IF number = Raise("KeyError") THEN IntOf(0) ELSE number))

\* NumberedMessage.__init__: the number mesg_num gives the name, None on a KeyError
NumberedMessage_number(name, types) ==
    Bind(Types_profile_to_type(types, "mesg_num", FALSE).result,
    LAMBDA mesg_num :
    Bind(IF IsRaise(mesg_num) THEN mesg_num
         ELSE Type_profile_to_internal(mesg_num, PyStr(name)),
    LAMBDA number :
        IF number = Raise("KeyError") THEN None ELSE number))

RowMessage(row, rows, types) ==
    Bind(NumberedMessage_number(Cell(row, 0).s, types),
    LAMBDA number :
        IF IsRaise(number) THEN [types |-> types, result |-> number, rows |-> rows]
        ELSE Bind(RowMessage_rows(Message("RowMessage", Cell(row, 0).s, number), rows, types),
             LAMBDA walked :
                 IF IsRaise(walked.result) THEN walked
                 ELSE Bind(RowMessage_complete_dynamic(walked.result, 1, walked.types),
                      LAMBDA done :
                          [types |-> done.types, result |-> done.result, rows |-> walked.rows])))

HEADER_FIELDS == <<
    <<"header_size", 1, "uint8">>,
    <<"protocol_version", 1, "uint8">>,
    <<"profile_version", 1, "uint16">>,
    <<"data_size", 1, "uint32">>,
    <<"fit_text", 4, "string">>,
    <<"checksum", 1, "uint16">> >>

RECURSIVE Header_fields(_, _, _)
Header_fields(msg, n, types) ==
    IF n >= Len(HEADER_FIELDS) THEN msg
    ELSE Header_fields(
             Message_add_field(msg,
                 MessageField("MessageField", HEADER_FIELDS[n + 1][1], IntOf(n), None,
                              Types_profile_to_type(types, HEADER_FIELDS[n + 1][3], FALSE).result)),
             n + 1, types)

Header(types) == Header_fields(Message("Header", "HEADER", IntOf(HEADER_GLOBAL_TYPE)), 0, types)

\* 'MESSAGE %d' % number
Missing(number) == Message("Missing", "MESSAGE " \o Str(number), number)

\* Messages.__add_message, on the catalog [profile_to_message, number_to_message]
Messages_add_message(catalog, msg) ==
    [t |-> "catalog",
     profile_to_message |-> DictSet(catalog.profile_to_message, msg.name, msg),
     number_to_message |-> IF msg.number = NoAttribute THEN catalog.number_to_message
                           ELSE DictSet(catalog.number_to_message, msg.number, msg)]

\* the loop of Messages.__init__ over the rows of the Messages sheet:
\* [types, result], the result the catalog or what was raised
RECURSIVE Messages_rows(_, _, _)
Messages_rows(catalog, rows, types) ==
    IF rows = <<>> THEN Step(types, catalog)
    ELSE IF Truthy(Cell(Head(rows), 0)) /\ ~FirstIsUpper(Cell(Head(rows), 0))
    THEN Bind(RowMessage(Head(rows), Tail(rows), types),
         LAMBDA made :
             IF IsRaise(made.result) THEN Step(made.types, made.result)
             ELSE Messages_rows(Messages_add_message(catalog, made.result),
                                made.rows, made.types))
    ELSE Messages_rows(catalog, Tail(rows), types)

Messages(sheet, types) ==
    Bind(Messages_rows([t |-> "catalog", profile_to_message |-> EmptyDict,
                        number_to_message |-> EmptyDict], sheet, types),
    LAMBDA walked :
        IF IsRaise(walked.result) THEN walked
        ELSE Step(walked.types, Messages_add_message(walked.result, Header(walked.types))))

(***************************************************************************)
(* Decoding a field                                                        *)
(***************************************************************************)
Pair(name, value) == [t |-> "pair", name |-> name, value |-> value]

MessageField_with_unit(field, value) ==
    IF value = None THEN value ELSE PyStr(Str(value) \o field.units)

\* self[...]: MessageField and its bases define no __getitem__
MessageField_getitem(field, item) == Raise("TypeError")

\* the loop over the pairs the callback returned: self.dynamic[pair] either
\* finds the alternative or raises, and only a KeyError goes on to the next pair
RECURSIVE MessageField_dynamic(_, _, _, _, _)
MessageField_dynamic(field, pairs, data_, size, endian) ==
    IF pairs = <<>> THEN Raise("Exception")
    ELSE Bind(ErrorDict_getitem_tuple(field.dynamic, Head(pairs)),
         LAMBDA alternative :
             IF alternative = Raise("KeyError")
             THEN MessageField_dynamic(field, Tail(pairs), data_, size, endian)
             ELSE IF IsRaise(alternative) THEN alternative
             ELSE MessageField_getitem(field, alternative))

\* MessageField.raw_to_internal; cb is None or the pairs dynamic_cb(references)
\* returns
MessageField_raw_to_internal(field, data_, size, endian, cb) ==
    IF field.is_dynamic
    THEN IF cb = None THEN Raise("NotImplementedError")
         ELSE IF ~HasDynamicAttributes(field) THEN Raise("AttributeError")
         ELSE MessageField_dynamic(field, cb.v, data_, size, endian)
    ELSE Bind(Type_raw_to_internal(field.type, data_, size, endian),
         LAMBDA value :
             IF IsRaise(value) THEN value
             ELSE Pair(PyStr(field.name), MessageField_with_unit(field, value)))

Message_parse_field(message_, field, bytes, count, endian, cb) ==
    MessageField_raw_to_internal(field, bytes, count, endian, cb)

Header_parse_field(message_, field, data_, count, endian, cb) ==
    IF field.name = "checksum"
    THEN IF PyStr("header_size") \notin DOMAIN message_ THEN Raise("KeyError")
         ELSE IF message_[PyStr("header_size")] = IntOf(12) THEN Pair(None, None)
         ELSE Message_parse_field(message_, field, data_, count, endian, cb)
    ELSE Message_parse_field(message_, field, data_, count, endian, cb)

parse_field(msg, message_, field, bytes, count, endian, cb) ==
    IF msg.cls = "Header" THEN Header_parse_field(message_, field, bytes, count, endian, cb)
    ELSE Message_parse_field(message_, field, bytes, count, endian, cb)

\* the except KeyError branch of Message.raw_to_internal
BaseTypeFallback(field_desc, bytes, endian) ==
    Bind(Type_raw_to_internal(field_desc.base_type, bytes,
                              field_desc.size \div field_desc.base_type.size, endian),
    LAMBDA value :
        IF IsRaise(value) THEN value
        ELSE Pair(PyStr(Str(IntOf(field_desc.number))), PyStr(Str(value))))

\* one iteration of the loop of Message.raw_to_internal: a Pair(name, value) to
\* store, or what it raised
DecodeField(msg, message_, field_desc, bytes, endian, cb) ==
    Bind(Message_number_to_field(msg, IntOf(field_desc.number)),
    LAMBDA field :
    Bind(IF IsRaise(field) THEN field
         ELSE parse_field(msg, message_, field, bytes,
                          field_desc.size \div field.type.size, endian, cb),
    LAMBDA parsed :
        IF parsed = Raise("KeyError") THEN BaseTypeFallback(field_desc, bytes, endian)
        ELSE parsed))

(***************************************************************************)
(* The profile the model is compiled from (read_profile: the Types and the *)
(* Messages sheets), and the compiled schema                               *)
(***************************************************************************)
TypesSheet == <<
    <<PyStr("Type Name"), PyStr("Base Type"), PyStr("Value Name"), PyStr("Value")>>,
    <<PyStr("mesg_num"), PyStr("uint16"), None, None>>,
    <<None, None, PyStr("workout_step"), IntOf(27)>>,
    <<PyStr("sport"), PyStr("enum"), None, None>>,
    <<None, None, PyStr("running"), IntOf(1)>>,
    <<None, None, PyStr("cycling"), IntOf(2)>> >>

MessagesRow(c0, c1, c2, c3, c8, c11, c12) ==
    <<c0, c1, c2, c3, None, None, None, None, c8, None, None, c11, c12>>

MessagesSheet == <<
    MessagesRow(PyStr("Message Name"), PyStr("Field Def #"), PyStr("Field Name"),
                PyStr("Field Type"), PyStr("Units"), PyStr("Ref Field Name"),
                PyStr("Ref Field Value")),
    MessagesRow(PyStr("workout_step"), None, None, None, None, None, None),
    MessagesRow(None, IntOf(1), PyStr("target"), PyStr("uint16"), None, None, None),
    MessagesRow(None, None, PyStr("target_hr"), PyStr("uint8"), PyStr("bpm"),
                Items(<<"sport">>), Items(<<"cycling">>)),
    MessagesRow(None, IntOf(0), PyStr("sport"), PyStr("sport"), None, None, None),
    MessagesRow(None, IntOf(253), PyStr("timestamp"), PyStr("date_time"), PyStr("s"),
                None, None),
    MessagesRow(None, None, None, None, None, None, None),
    MessagesRow(PyStr("pad"), None, None, None, None, None, None),
    MessagesRow(None, IntOf(0), PyStr("fill"), PyStr("uint8"), None, None, None) >>

\* read_profile: types = Types(...); messages = Messages(..., types)
CompiledTypes == Types(TypesSheet)
CompiledMessages == Messages(MessagesSheet, CompiledTypes.types)
Registry == CompiledMessages.types
Catalog == CompiledMessages.result

(***************************************************************************)
(* The inputs of a decode                                                  *)
(***************************************************************************)
\* how many field descriptors a definition holds at most
MaxFields == 2
\* how many pairs a dynamic callback returns at most
MaxPairs == 2
\* how many items a type-level decode is asked for at most
MaxCount == 2

\* a field descriptor of a definition record: the base type is looked up by
\* its index in Types.base_types
FieldDesc(number, size, base_type_index) ==
    [number |-> number, size |-> size, base_type |-> Registry.base_types[base_type_index + 1]]

FieldDescs == {
    FieldDesc(0, 1, 0), FieldDesc(1, 1, 2), FieldDesc(1, 2, 4), FieldDesc(1, 3, 4),
    FieldDesc(250, 1, 2), FieldDesc(250, 3, 4), FieldDesc(253, 4, 6), FieldDesc(5, 2, 4) }

\* the definition of the file header: HEADER_FIELDS in order, each with its size
HeaderDefinition == <<
    FieldDesc(0, 1, 2), FieldDesc(1, 1, 2), FieldDesc(2, 2, 4),
    FieldDesc(3, 4, 6), FieldDesc(4, 4, 7), FieldDesc(5, 2, 4) >>

RECURSIVE SeqsUpTo(_, _)
SeqsUpTo(S, n) ==
    IF n = 0 THEN {<<>>}
    ELSE LET shorter == SeqsUpTo(S, n - 1)
         IN  shorter \cup {Append(q, x) : q \in shorter, x \in S}

Definitions == (SeqsUpTo(FieldDescs, MaxFields) \ {<<>>}) \cup {HeaderDefinition}

\* the bytes of one field: all 0xFF (the bad pattern of the unsigned types) or a value
Chunks(size) ==
    {Repeat(<<255>>, size)}
    \cup (CASE size = 1 -> {<<42>>}
            [] size = 2 -> {<<1, 0>>}
            [] size = 3 -> {<<1, 0, 2>>}
            [] size = 4 -> {<<0, 0, 0, 16>>})

RECURSIVE Concatenations(_)
Concatenations(fields) ==
    IF fields = <<>> THEN {<<>>}
    ELSE {c \o r : c \in Chunks(Head(fields).size), r \in Concatenations(Tail(fields))}

\* a file header of 12 or of 14 bytes, its header_size 12 or 14
HeaderData ==
    {<<hs, 16, 100, 0, 42, 0, 0, 0, 46, 70, 73, 84>> \o crc : hs \in {12, 14}, crc \in {<<>>, <<1, 0>>}}

\* the record's bytes: a chunk for every field, or the data ends before the last field
DataOf(fields) ==
    IF fields = HeaderDefinition THEN HeaderData
    ELSE Concatenations(fields) \cup Concatenations(SubSeq(fields, 1, Len(fields) - 1))

\* what dynamic_cb(references) may return: pairs (reference name, value)
CallbackPairs == {<<"sport", IntOf(2)>>, <<"sport", IntOf(5)>>}
CallbackResults ==
    {[t |-> "pairs", v |-> q] :
        q \in {q \in SeqsUpTo(CallbackPairs, MaxPairs) : \A i, j \in 1..Len(q) : i # j => q[i] # q[j]}}

\* the numbers and names the catalog is asked for
MessageNumbers == {27, -1, 99}
MessageNames == {"workout_step", "pad", "HEADER", "record"}

(***************************************************************************)
(* The state machine                                                       *)
(***************************************************************************)
Pending == [t |-> "pending"]
NoLast == [field_desc |-> None, known |-> FALSE, dynamic |-> FALSE, pairs |-> <<>>,
           bytes |-> <<>>, result |-> Pending]
NoDefinition == [fields |-> <<>>, endian |-> LITTLE]

TypesIdle ==
    /\ t_type = None /\ t_data = <<>> /\ t_count = 0 /\ t_endian = LITTLE
    /\ t_result = Pending

DecodeIdle ==
    /\ pc = "idle" /\ self = None /\ definition = NoDefinition /\ data = <<>>
    /\ dynamic_cb = FALSE /\ offset = 0 /\ idx = 0 /\ message = EmptyDict
    /\ raised = "" /\ last = NoLast

\* no call on the registry yet
NoCall == [op |-> "none"]

\* read_profile has returned: the registry is the compiled one
CompileIdle ==
    /\ c_pc = "done" /\ c_sheet = <<>> /\ c_rows = <<>> /\ c_types = Registry
    /\ c_raised = "" /\ c_blocks = <<>>
    /\ r_last = NoCall /\ r_first = Registry.profile_to_type

CatalogInit ==
    /\ profile_to_message = Catalog.profile_to_message
    /\ number_to_message = Catalog.number_to_message
    /\ found = None

Init == TypesIdle /\ CatalogInit /\ DecodeIdle /\ CompileIdle

\* Messages.profile_to_message(name)
ProfileToMessage(name) ==
    /\ pc = "idle"
    /\ found' = ErrorDict_getitem(profile_to_message, name)
    /\ UNCHANGED <<catalog_vars, decode_vars, type_vars, compile_vars>>

\* Messages.number_to_message(number)
NumberToMessage(number) ==
    /\ pc = "idle"
    /\ IF IntOf(number) \in DOMAIN number_to_message
       THEN /\ found' = number_to_message[IntOf(number)]
            /\ UNCHANGED number_to_message
       ELSE /\ found' = Missing(IntOf(number))
            /\ number_to_message' = DictSet(number_to_message, IntOf(number), Missing(IntOf(number)))
    /\ UNCHANGED <<profile_to_message, decode_vars, type_vars, compile_vars>>

\* Message.number_to_field(value), on the message found last
NumberToField(value) ==
    /\ pc = "idle"
    /\ found.t = "message"
    /\ found' = Message_number_to_field(found, IntOf(value))
    /\ UNCHANGED <<catalog_vars, decode_vars, type_vars, compile_vars>>

\* Message.raw_to_internal(data, definition, dynamic_cb) is called on the
\* message found last: offset = 0, message = {}
RawToInternal(fields, endian, bytes, cb) ==
    /\ pc = "idle"
    /\ found.t = "message"
    /\ self' = found
    /\ found' = None
    /\ definition' = [fields |-> fields, endian |-> endian]
    /\ data' = bytes
    /\ dynamic_cb' = cb
    /\ offset' = 0 /\ idx' = 0 /\ message' = EmptyDict
    /\ raised' = "" /\ last' = NoLast
    /\ pc' = "loop"
    /\ UNCHANGED <<catalog_vars, type_vars, compile_vars>>

\* the end of one iteration: message[name] = value and offset += field_desc.size,
\* or the exception leaves the loop
StoreField(field_desc, bytes, known, asks, pairs, result) ==
    /\ last' = [field_desc |-> field_desc, known |-> known, dynamic |-> asks,
                pairs |-> pairs, bytes |-> bytes, result |-> result]
    /\ IF IsRaise(result)
       THEN /\ pc' = "raised"
            /\ raised' = result.e
            /\ UNCHANGED <<message, offset, idx>>
       ELSE /\ message' = DictSet(message, result.name, result.value)
            /\ offset' = offset + field_desc.size
            /\ idx' = idx + 1
            /\ UNCHANGED <<pc, raised>>

\* whether the field the descriptor numbers is one the message knows
KnownField(msg, field_desc) ==
    ~IsRaise(Message_number_to_field(msg, IntOf(field_desc.number)))

\* whether decoding the field calls dynamic_cb
AsksCallback(msg, field_desc, cb) ==
    Bind(Message_number_to_field(msg, IntOf(field_desc.number)),
    LAMBDA field : ~IsRaise(field) /\ field.is_dynamic /\ cb)

\* data[0:field_desc.size]: the offset left out of the slice
FieldBytes_from_start(field_desc) == Slice(data, 0, field_desc.size)

\* the bytes of the field: data[offset:offset+field_desc.size]
FieldBytes(field_desc) == Slice(data, offset, offset + field_desc.size)

\* one iteration of  for field_desc in definition.fields
LoopField(pairs) ==
    /\ pc = "loop"
    /\ idx < Len(definition.fields)
    /\ AsksCallback(self, definition.fields[idx + 1], dynamic_cb) \/ pairs.v = <<>>
    /\ StoreField(definition.fields[idx + 1],
                  FieldBytes(definition.fields[idx + 1]),
                  KnownField(self, definition.fields[idx + 1]),
                  AsksCallback(self, definition.fields[idx + 1], dynamic_cb),
                  pairs.v,
                  DecodeField(self, message, definition.fields[idx + 1],
                              FieldBytes(definition.fields[idx + 1]), definition.endian,
                              IF dynamic_cb THEN pairs ELSE None))
    /\ UNCHANGED <<self, definition, data, dynamic_cb, found, catalog_vars, type_vars,
                   compile_vars>>

\* return message
Return ==
    /\ pc = "loop"
    /\ idx = Len(definition.fields)
    /\ pc' = "done"
    /\ UNCHANGED <<self, definition, data, dynamic_cb, offset, idx, message, raised, last,
                   found, catalog_vars, type_vars, compile_vars>>

\* the caller takes the record (or the exception) and goes on to the next one
NextRecord ==
    /\ pc \in {"done", "raised"}
    /\ pc' = "idle" /\ self' = None /\ definition' = NoDefinition /\ data' = <<>>
    /\ dynamic_cb' = FALSE /\ offset' = 0 /\ idx' = 0 /\ message' = EmptyDict
    /\ raised' = "" /\ last' = NoLast
    /\ UNCHANGED <<found, catalog_vars, type_vars, compile_vars>>

Next ==
    \/ \E name \in MessageNames : ProfileToMessage(name)
    \/ \E number \in MessageNumbers : NumberToMessage(number)
    \/ \E value \in {0, 250} : NumberToField(value)
    \/ \E fields \in Definitions, endian \in {LITTLE, BIG}, cb \in BOOLEAN :
          \E bytes \in DataOf(fields) : RawToInternal(fields, endian, bytes, cb)
    \/ \E pairs \in CallbackResults : LoopField(pairs)
    \/ Return
    \/ NextRecord

Spec == Init /\ [][Next]_vars

(***************************************************************************)
(* The type-level decode: Init draws a type, an endian, a count and the    *)
(* bytes of count items; the action applies raw_to_internal                *)
(***************************************************************************)
IntegerWidths == {8, 16, 32, 64}
IntegerTypes == {AutoInteger(m.name) : m \in {m \in AutoInteger_pattern : m.g2 \in IntegerWidths}}
TypesUnderTest ==
    IntegerTypes
    \cup {Registry.profile_to_type[n] : n \in {"enum", "byte", "date_time", "local_date_time"}}

\* the bytes of one item: zeros, ones, the largest signed value in either byte
\* order, one, and 0x10 in the high (little endian) byte
Elements(size) ==
    { Repeat(<<0>>, size), Repeat(<<255>>, size),
      Repeat(<<255>>, size - 1) \o <<127>>, <<127>> \o Repeat(<<255>>, size - 1),
      <<1>> \o Repeat(<<0>>, size - 1), Repeat(<<0>>, size - 1) \o <<16>> }

RECURSIVE ItemBytes(_, _)
ItemBytes(size, count) ==
    IF count = 0 THEN {<<>>}
    ELSE {e \o r : e \in Elements(size), r \in ItemBytes(size, count - 1)}

InitTypes ==
    /\ t_type \in TypesUnderTest
    /\ t_endian \in {LITTLE, BIG}
    /\ t_count \in 1..MaxCount
    /\ t_data \in ItemBytes(t_type.size, t_count)
    /\ t_result = Pending
    /\ CatalogInit /\ DecodeIdle /\ CompileIdle

TypeRawToInternal ==
    /\ t_result = Pending
    /\ t_result' = Type_raw_to_internal(t_type, t_data, t_count, t_endian)
    /\ UNCHANGED <<t_type, t_data, t_count, t_endian, catalog_vars, decode_vars, found,
                   compile_vars>>

NextTypes == TypeRawToInternal

SpecTypes == InitTypes /\ [][NextTypes]_vars

(***************************************************************************)
(* Compilation of the profile, one iteration of the driver's loop at a     *)
(* time: Types.__init__ walks the Types sheet, then Messages.__init__ the  *)
(* Messages sheet.  A block (Mapping or RowMessage) is compiled within the *)
(* iteration that takes its header, and hands back the rows it left.       *)
(***************************************************************************)
\* how many rows a Types sheet and a Messages sheet hold at most
MaxTypeRows == 3
MaxMessageRows == 4

TypesRowOf(c0, c1, c2, c3) == <<c0, c1, c2, c3>>

\* the rows a Types sheet is drawn from: headers of mappings (one takes the name
\* of a known type of another size), value rows that repeat a name or a value,
\* a blank row
TypeRows == {
    TypesRowOf(PyStr("m"), PyStr("uint8"), None, None),
    TypesRowOf(PyStr("n"), PyStr("uint16"), None, None),
    TypesRowOf(PyStr("enum"), PyStr("uint16"), None, None),
    TypesRowOf(None, None, PyStr("a"), IntOf(1)),
    TypesRowOf(None, None, PyStr("b"), IntOf(1)),
    TypesRowOf(None, None, PyStr("a"), IntOf(2)),
    TypesRowOf(None, None, None, None) }

TypeSheets == SeqsUpTo(TypeRows, MaxTypeRows) \cup {TypesSheet}

\* the rows a Messages sheet is drawn from: headers (with and without a
\* mesg_num entry, and one that also names a field), field rows, the row of a
\* dynamic alternative, a blank row
MessageRows == {
    MessagesRow(PyStr("workout_step"), None, None, None, None, None, None),
    MessagesRow(PyStr("pad"), None, None, None, None, None, None),
    MessagesRow(PyStr("pad"), IntOf(3), PyStr("fill"), PyStr("uint8"), None, None, None),
    MessagesRow(None, IntOf(1), PyStr("target"), PyStr("uint16"), None, None, None),
    MessagesRow(None, None, PyStr("target_hr"), PyStr("uint8"), PyStr("bpm"),
                Items(<<"sport">>), Items(<<"cycling">>)),
    MessagesRow(None, IntOf(0), PyStr("sport"), PyStr("sport"), None, None, None),
    MessagesRow(None, None, None, None, None, None, None) }

\* Messages sheets are walked with the registry of the Types sheet of the profile
MessageSheets(types_sheet) ==
    IF types_sheet = TypesSheet
    THEN SeqsUpTo(MessageRows, MaxMessageRows) \cup {MessagesSheet}
    ELSE {<<>>}

\* the index in the sheet of the row the iterator yields next
Position == Len(c_sheet) - Len(c_rows) + 1

\* row[0] and not row[0][0].isupper()
IsBlockHeader(row) == Truthy(Cell(row, 0)) /\ ~FirstIsUpper(Cell(row, 0))

\* self.__add_type(Mapping(self.__log, row, rows, self)), or what either raised
StoreType(made, added) ==
    /\ c_types' = added.types
    /\ c_rows' = made.rows
    /\ c_blocks' = Append(c_blocks, [header |-> Position, left |-> Len(made.rows)])
    /\ IF IsRaise(added.result)
       THEN c_pc' = "types_failed" /\ c_raised' = added.result.e
       ELSE UNCHANGED <<c_pc, c_raised>>

AddMapping(made) ==
    StoreType(made, IF IsRaise(made.result) THEN Step(made.types, made.result)
                    ELSE Types_add_type(made.types, made.result))

\* one iteration of  for row in rows  of Types.__init__
TypesRow ==
    /\ c_pc = "types"
    /\ c_rows # <<>>
    /\ IF IsBlockHeader(Head(c_rows))
       THEN AddMapping(Mapping(Head(c_rows), Tail(c_rows), c_types))
       ELSE /\ c_rows' = Tail(c_rows)
            /\ UNCHANGED <<c_pc, c_types, c_raised, c_blocks>>
    /\ UNCHANGED <<c_sheet, r_last, r_first, catalog_vars, decode_vars, type_vars, found>>

\* Types.__init__ returns
TypesDone ==
    /\ c_pc = "types"
    /\ c_rows = <<>>
    /\ c_pc' = "typed"
    /\ UNCHANGED <<c_sheet, c_rows, c_types, c_raised, c_blocks, r_last, r_first,
                   catalog_vars, decode_vars, type_vars, found>>

\* messages = Messages(nlog, wb['Messages'], types): the two indexes are empty
\* and the walk of the sheet starts
StartMessages(sheet) ==
    /\ c_pc = "typed"
    /\ c_pc' = "messages"
    /\ c_sheet' = sheet
    /\ c_rows' = sheet
    /\ c_blocks' = <<>>
    /\ profile_to_message' = EmptyDict
    /\ number_to_message' = EmptyDict
    /\ UNCHANGED <<c_types, c_raised, r_last, r_first, decode_vars, type_vars, found>>

\* self.__add_message(RowMessage(self.__log, row, rows, types)), or what it raised
StoreMessage(made) ==
    /\ c_types' = made.types
    /\ c_rows' = made.rows
    /\ c_blocks' = Append(c_blocks, [header |-> Position, left |-> Len(made.rows)])
    /\ IF IsRaise(made.result)
       THEN /\ c_pc' = "messages_failed" /\ c_raised' = made.result.e
            /\ UNCHANGED catalog_vars
       ELSE /\ profile_to_message' =
                   Messages_add_message([t |-> "catalog",
                                         profile_to_message |-> profile_to_message,
                                         number_to_message |-> number_to_message],
                                        made.result).profile_to_message
            /\ number_to_message' =
                   Messages_add_message([t |-> "catalog",
                                         profile_to_message |-> profile_to_message,
                                         number_to_message |-> number_to_message],
                                        made.result).number_to_message
            /\ UNCHANGED <<c_pc, c_raised>>

\* one iteration of  for row in rows  of Messages.__init__
MessagesWalkRow ==
    /\ c_pc = "messages"
    /\ c_rows # <<>>
    /\ IF IsBlockHeader(Head(c_rows))
       THEN StoreMessage(RowMessage(Head(c_rows), Tail(c_rows), c_types))
       ELSE /\ c_rows' = Tail(c_rows)
            /\ UNCHANGED <<c_pc, c_types, c_raised, c_blocks, catalog_vars>>
    /\ UNCHANGED <<c_sheet, r_last, r_first, decode_vars, type_vars, found>>

\* the sheet is exhausted: self.__add_message(Header(self.__log, types)), and
\* Messages.__init__ returns
MessagesDone ==
    /\ c_pc = "messages"
    /\ c_rows = <<>>
    /\ c_pc' = "done"
    /\ profile_to_message' = DictSet(profile_to_message, "HEADER", Header(c_types))
    /\ number_to_message' = DictSet(number_to_message, IntOf(HEADER_GLOBAL_TYPE), Header(c_types))
    /\ UNCHANGED <<c_sheet, c_rows, c_types, c_raised, c_blocks, r_last, r_first,
                   decode_vars, type_vars, found>>

\* Types.__init__ has run __add_known_types and is about to walk its sheet
InitProfile ==
    /\ c_pc = "types"
    /\ c_sheet \in TypeSheets
    /\ c_rows = c_sheet
    /\ c_types = KnownTypes
    /\ c_raised = "" /\ c_blocks = <<>>
    /\ r_last = NoCall /\ r_first = c_types.profile_to_type
    /\ profile_to_message = EmptyDict /\ number_to_message = EmptyDict /\ found = None
    /\ TypesIdle /\ DecodeIdle

NextProfile ==
    \/ TypesRow
    \/ TypesDone
    \/ \E sheet \in MessageSheets(c_sheet) : StartMessages(sheet)
    \/ MessagesWalkRow
    \/ MessagesDone

SpecProfile == InitProfile /\ [][NextProfile]_vars

(***************************************************************************)
(* Properties of the record decode (specification Spec)                    *)
(***************************************************************************)
\* C1: when a dynamic field is decoded and the callback returned a pair that is
\* a key of the field's dynamic table, the field is decoded through the
\* alternative found under the first such pair: it is stored under the
\* alternative's name, with the alternative's type and unit, and nothing is raised
C1_AlternativeDecodesField ==
    (last.dynamic /\ Len(last.bytes) = last.field_desc.size
     /\ \E i \in 1..Len(last.pairs) :
            last.pairs[i] \in DOMAIN Message_number_to_field(self, IntOf(last.field_desc.number)).dynamic)
    => LET field == Message_number_to_field(self, IntOf(last.field_desc.number))
           hit == CHOOSE i \in 1..Len(last.pairs) :
                      /\ last.pairs[i] \in DOMAIN field.dynamic
                      /\ \A j \in 1..(i - 1) : last.pairs[j] \notin DOMAIN field.dynamic
           alternative == field.dynamic[last.pairs[hit]]
       IN  last.result =
               Pair(PyStr(alternative.name),
                    MessageField_with_unit(alternative,
                        Type_raw_to_internal(alternative.type, last.bytes,
                                             Len(last.bytes) \div alternative.type.size,
                                             definition.endian)))

\* C2: when a dynamic field is decoded and no pair the callback returned is a
\* key of the field's dynamic table (the callback may return no pair at all),
\* the field is decoded with its own type and stored under its own name, and
\* nothing is raised
C2_NoHitDecodesGeneric ==
    (last.dynamic /\ Len(last.bytes) = last.field_desc.size
     /\ \A i \in 1..Len(last.pairs) :
            last.pairs[i] \notin DOMAIN Message_number_to_field(self, IntOf(last.field_desc.number)).dynamic)
    => LET field == Message_number_to_field(self, IntOf(last.field_desc.number))
       IN  last.result =
               Pair(PyStr(field.name),
                    MessageField_with_unit(field,
                        Type_raw_to_internal(field.type, last.bytes,
                                             Len(last.bytes) \div field.type.size,
                                             definition.endian)))

\* C3: a header record decoded through HEADER with the six header fields in
\* order has no checksum entry when its header_size is 12, and has one when its
\* header_size is 14
C3_ChecksumSuppressed ==
    (pc = "done" /\ self.cls = "Header" /\ definition.fields = HeaderDefinition)
    => /\ data[1] = 12 => PyStr("checksum") \notin DOMAIN message
       /\ data[1] = 14 => PyStr("checksum") \in DOMAIN message

\* C4: a field whose number the message does not know is stored under the
\* decimal string of the number, and its value is exactly what the descriptor's
\* base type decodes with count = size / base_type.size
C4_UnknownFieldValue ==
    (last.result # Pending /\ ~last.known /\ Len(last.bytes) = last.field_desc.size)
    => last.result =
           Pair(PyStr(Str(IntOf(last.field_desc.number))),
                Type_raw_to_internal(last.field_desc.base_type, last.bytes,
                                     last.field_desc.size \div last.field_desc.base_type.size,
                                     definition.endian))

\* C5: a field whose bytes are the bad pattern of the type that decodes it (the
\* field's type when the message knows the field, the base type otherwise) is
\* present in the record and its value is None
C5_BadValueIsNone ==
    (last.result # Pending /\ ~last.dynamic)
    => LET field == Message_number_to_field(self, IntOf(last.field_desc.number))
           type == IF last.known THEN field.type ELSE last.field_desc.base_type
           name == IF last.known THEN PyStr(field.name)
                   ELSE PyStr(Str(IntOf(last.field_desc.number)))
       IN  (/\ last.known => ~field.is_dynamic
            /\ "bad" \in DOMAIN type
            /\ Len(last.bytes) >= type.size
            /\ Len(last.bytes) % type.size = 0
            /\ is_bad(last.bytes, type.bad[definition.endian + 1]))
           => /\ last.result = Pair(name, None)
              /\ name \in DOMAIN message /\ message[name] = None

\* C8: when the size of a field descriptor is not a multiple of the size of the
\* type that decodes it, the decode of the record raises: the field's bytes are
\* never decoded into a value
C8_SizeMismatchRaises ==
    (last.result # Pending /\ Len(last.bytes) = last.field_desc.size)
    => LET field == Message_number_to_field(self, IntOf(last.field_desc.number))
           type == IF last.known THEN field.type ELSE last.field_desc.base_type
       IN  last.field_desc.size % type.size # 0 => IsRaise(last.result)

\* C9: once compiled the catalog never changes: no operation of a decoder adds,
\* removes or replaces an entry of its name index or of its number index
C9_CatalogImmutable ==
    /\ profile_to_message = Catalog.profile_to_message
    /\ number_to_message = Catalog.number_to_message

\* C10: for a definition whose descriptors are each a known field that is not
\* dynamic or a number the message does not know, the keys of the returned
\* mapping are exactly the names of the known fields and the decimal strings of
\* the unknown numbers
C10_KeysOfRecord ==
    (/\ pc = "done" /\ offset = Len(data)
     /\ \A i \in 1..Len(definition.fields) :
            LET field == Message_number_to_field(self, IntOf(definition.fields[i].number))
            IN  IsRaise(field) \/ ~field.is_dynamic)
    => DOMAIN message =
           {LET field == Message_number_to_field(self, IntOf(definition.fields[i].number))
            IN  IF IsRaise(field) THEN PyStr(Str(IntOf(definition.fields[i].number)))
                ELSE PyStr(field.name) : i \in 1..Len(definition.fields)}

(***************************************************************************)
(* Properties of the types' decode (specification SpecTypes)               *)
(***************************************************************************)
\* C6: for every AutoInteger type, either endian and every count >= 1, the
\* decode returns None exactly when every one of the count items is the bad
\* pattern: the bytes of 0 for a z type, of 2^bits - 1 for an unsigned type and
\* of 2^(bits-1) - 1 for a signed type
C6_BadPatternIsNone ==
    (t_type.cls = "AutoInteger" /\ t_result # Pending)
    => LET match == Match(AutoInteger_pattern, t_type.name)
           little == IF match.g3 = "z" THEN Repeat(<<0>>, t_type.size)
                     ELSE IF match.g1 = "u" THEN Repeat(<<255>>, t_type.size)
                     ELSE Repeat(<<255>>, t_type.size - 1) \o <<127>>
           pattern == IF t_endian = LITTLE THEN little ELSE Reverse(little)
           all_bad == \A i \in 0..(t_count - 1) :
                          SubSeq(t_data, t_type.size * i + 1, t_type.size * (i + 1)) = pattern
       IN  (t_result = None) <=> all_bad

\* C6 happens: two items of a signed 64 bit type, both the bad pattern with the
\* most significant byte first, were decoded to None
C6_Witness ==
    /\ t_type.cls = "AutoInteger" /\ t_type.name = "sint64"
    /\ t_endian = BIG /\ t_count = 2
    /\ t_data = <<127>> \o Repeat(<<255>>, 7) \o <<127>> \o Repeat(<<255>>, 7)
    /\ t_result = None

\* C7: a Date type decodes the bad pattern of uint32 (0xFFFFFFFF in every item)
\* to None, in either endian: it neither raises nor returns a timestamp
C7_DateBadIsNone ==
    (t_type.cls = "Date" /\ t_result # Pending
     /\ t_data = Repeat(<<255>>, 4 * t_count))
    => t_result = None

(***************************************************************************)
(* Properties of the compilation (specification SpecProfile)               *)
(***************************************************************************)
\* C11: in every compiled message, every field in its name or number index and
\* every alternative in a dynamic table has is_dynamic true exactly when it has
\* at least one dynamic alternative attached to it; an alternative without
\* alternatives of its own has is_dynamic false
C11_DynamicIffAlternatives ==
    c_pc = "done" =>
        \A name \in DOMAIN profile_to_message :
            LET msg == profile_to_message[name]
                indexed == {msg._profile_to_field[n] : n \in DOMAIN msg._profile_to_field}
                           \cup {msg._number_to_field[n] : n \in DOMAIN msg._number_to_field}
                attached(field) == field.dynamic_tmp_data # <<>> \/ DOMAIN field.dynamic # {}
            IN  \A at \in indexed :
                    /\ msg.fields[at].is_dynamic <=> attached(msg.fields[at])
                    /\ \A key \in DOMAIN msg.fields[at].dynamic :
                           msg.fields[at].dynamic[key].is_dynamic
                               <=> attached(msg.fields[at].dynamic[key])

\* C12: after a compilation that succeeded, every field of a message with
\* is_dynamic true has a non-empty references set, every member of references
\* is a field of the same message, and every key (reference name, value) of its
\* dynamic table names a field of that message
C12_ReferencesResolve ==
    c_pc = "done" =>
        \A name \in DOMAIN profile_to_message :
            LET msg == profile_to_message[name]
                indexed == {msg._profile_to_field[n] : n \in DOMAIN msg._profile_to_field}
                           \cup {msg._number_to_field[n] : n \in DOMAIN msg._number_to_field}
            IN  \A at \in indexed :
                    msg.fields[at].is_dynamic =>
                        /\ msg.fields[at].references # {}
                        /\ msg.fields[at].references \subseteq DOMAIN msg._profile_to_field
                        /\ \A key \in DOMAIN msg.fields[at].dynamic :
                               key[1] \in DOMAIN msg._profile_to_field

\* C13 as stated: every message in the number index of the compiled catalog has
\* an entry in the mesg_num Mapping equal to its number, and a message without
\* an entry in mesg_num is under its name only
C13_EveryNumberedHasMesgNum ==
    c_pc = "done" =>
        LET mesg_num == IF "mesg_num" \in DOMAIN c_types.profile_to_type
                        THEN c_types.profile_to_type["mesg_num"]._profile_to_internal
                        ELSE EmptyDict
        IN  /\ \A n \in DOMAIN number_to_message :
                   /\ PyStr(number_to_message[n].name) \in DOMAIN mesg_num
                   /\ mesg_num[PyStr(number_to_message[n].name)] = n
            /\ \A name \in DOMAIN profile_to_message :
                   PyStr(name) \notin DOMAIN mesg_num =>
                       \A n \in DOMAIN number_to_message : number_to_message[n].name # name

\* C13 amended: every message in the number index other than the synthetic
\* HEADER has an entry in mesg_num equal to its number, HEADER is in the number
\* index under HEADER_GLOBAL_TYPE, and a message read from the sheet without an
\* entry in mesg_num has no number and is under its name only
C13_NumberedRowMessageHasMesgNum ==
    c_pc = "done" =>
        LET mesg_num == IF "mesg_num" \in DOMAIN c_types.profile_to_type
                        THEN c_types.profile_to_type["mesg_num"]._profile_to_internal
                        ELSE EmptyDict
        IN  /\ \A n \in DOMAIN number_to_message :
                   \/ /\ number_to_message[n].cls = "Header"
                      /\ n = IntOf(HEADER_GLOBAL_TYPE)
                   \/ /\ number_to_message[n].cls = "RowMessage"
                      /\ PyStr(number_to_message[n].name) \in DOMAIN mesg_num
                      /\ mesg_num[PyStr(number_to_message[n].name)] = n
                      /\ number_to_message[n].number = n
            /\ \A name \in DOMAIN profile_to_message :
                   (PyStr(name) \notin DOMAIN mesg_num /\ name # "HEADER") =>
                       /\ profile_to_message[name].number = NoAttribute
                       /\ \A n \in DOMAIN number_to_message : number_to_message[n].name # name

\* C13 witness: a compiled catalog with workout_step under its number 27, the
\* message pad, which mesg_num does not know, under its name, and HEADER
C13_Witness ==
    /\ c_pc = "done"
    /\ IntOf(27) \in DOMAIN number_to_message
    /\ number_to_message[IntOf(27)].name = "workout_step"
    /\ "pad" \in DOMAIN profile_to_message
    /\ IntOf(HEADER_GLOBAL_TYPE) \in DOMAIN number_to_message

(***************************************************************************)
(* Properties of the Date types (specification SpecTypes)                  *)
(***************************************************************************)
\* C14 as stated: a Date type decodes a single uint32 N that is not the bad
\* pattern to the integer N when N < 0x10000000 and to the timestamp
\* 1989-12-31T00:00:00 + N seconds otherwise, UTC for date_time and naive for
\* local_date_time; 0x10000000 gives 1998-07-03T12:04:16
C14_DateExample ==
    (t_type.cls = "Date" /\ t_count = 1 /\ t_result # Pending
     /\ t_endian = LITTLE /\ t_data = <<0, 0, 0, 16>>)
    => t_result = [t |-> "datetime", year |-> 1998, month |-> 7, day |-> 3,
                   hour |-> 12, minute |-> 4, second |-> 16, utc |-> t_type.utc]

\* C14 amended: a Date type decodes a single uint32 N that is not the bad
\* pattern to the integer N when N < 0x10000000, and otherwise to the date and
\* time that lie N seconds after 1989-12-31T00:00:00, UTC for date_time and
\* naive for local_date_time; 0x10000000 gives 1998-07-03T21:24:16.  The
\* seconds are compared as N div 128 and N mod 128 (86400 = 128 * 675).
C14_DateAfterEpoch ==
    (t_type.cls = "Date" /\ t_count = 1 /\ t_result # Pending
     /\ t_data # <<255, 255, 255, 255>>)
    => LET digit(i) == IF t_endian = LITTLE THEN t_data[i] ELSE t_data[5 - i]
           DaysFromCivil(y, m, d) ==
               LET yy == IF m <= 2 THEN y - 1 ELSE y
                   era == yy \div 400
                   yoe == yy - era * 400
                   doy == ((153 * (IF m > 2 THEN m - 3 ELSE m + 9) + 2) \div 5) + d - 1
                   doe == yoe * 365 + (yoe \div 4) - (yoe \div 100) + doy
               IN  era * 146097 + doe - 719468
           days == DaysFromCivil(t_result.year, t_result.month, t_result.day)
                   - DaysFromCivil(1989, 12, 31)
           secs == t_result.hour * 3600 + t_result.minute * 60 + t_result.second
       IN  IF digit(4) < 16
           THEN t_result = IntOf(digit(1) + 256 * digit(2) + 65536 * digit(3)
                                 + 16777216 * digit(4))
           ELSE /\ t_result.t = "datetime"
                /\ t_result.utc = (t_type.name = "date_time")
                /\ t_result.month \in 1..12 /\ t_result.day \in 1..31
                /\ t_result.hour \in 0..23 /\ t_result.minute \in 0..59
                /\ t_result.second \in 0..59
                /\ days * 675 + (secs \div 128)
                       = (digit(1) \div 128) + 2 * digit(2) + 512 * digit(3) + 131072 * digit(4)
                /\ secs % 128 = digit(1) % 128
                /\ (t_endian = LITTLE /\ t_data = <<0, 0, 0, 16>>)
                       => t_result = [t |-> "datetime", year |-> 1998, month |-> 7, day |-> 3,
                                      hour |-> 21, minute |-> 24, second |-> 16,
                                      utc |-> t_type.utc]

\* C14 witness: date_time has decoded the little endian bytes of 0x10000000 to
\* the UTC timestamp 1998-07-03T21:24:16
C14_Witness ==
    /\ t_type.name = "date_time" /\ t_count = 1
    /\ t_endian = LITTLE /\ t_data = <<0, 0, 0, 16>>
    /\ t_result = [t |-> "datetime", year |-> 1998, month |-> 7, day |-> 3,
                   hour |-> 21, minute |-> 24, second |-> 16, utc |-> TRUE]

(***************************************************************************)
(* The type registry under calls of __add_type and profile_to_type         *)
(* (specification SpecRegistry)                                            *)
(***************************************************************************)
\* Mapping(log, [name, base], rows, types) built against the registry of the profile
MappingOf(name, base, rows) ==
    Mapping(TypesRowOf(PyStr(name), PyStr(base), None, None), rows, Registry).result

\* the types handed to __add_type: mappings that take a new name (twice with the
\* same size and different entries, once with another size), mappings that take
\* the name of a known type (with its size, with another size), a known type
TypeCandidates == {
    MappingOf("m", "uint8", <<>>),
    MappingOf("m", "uint8", <<TypesRowOf(None, None, PyStr("a"), IntOf(1))>>),
    MappingOf("m", "uint16", <<>>),
    MappingOf("enum", "uint8", <<>>),
    MappingOf("enum", "uint16", <<>>),
    AutoInteger("uint8") }

\* the names asked of profile_to_type: registered, free, matching a pattern with
\* a width that can and cannot be unpacked, matching no pattern
TypeNames == {"uint8", "m", "int8", "float16", "sint24", "float12", "nosuch"}

\* the registry after Types.__init__, of an empty sheet or of the profile
InitRegistry ==
    /\ c_pc = "registry"
    /\ c_types \in {KnownTypes, Registry}
    /\ c_sheet = <<>> /\ c_rows = <<>> /\ c_raised = "" /\ c_blocks = <<>>
    /\ r_last = NoCall /\ r_first = c_types.profile_to_type
    /\ CatalogInit /\ TypesIdle /\ DecodeIdle

\* self.__add_type(type); r_first keeps the first type handed in under each name
AddType(type) ==
    /\ c_pc = "registry"
    /\ c_types' = Types_add_type(c_types, type).types
    /\ r_last' = [op |-> "add_type", type |-> type, before |-> c_types,
                  result |-> Types_add_type(c_types, type).result]
    /\ r_first' = IF type.name \in DOMAIN r_first THEN r_first
                  ELSE DictSet(r_first, type.name, type)
    /\ UNCHANGED <<c_pc, c_sheet, c_rows, c_raised, c_blocks,
                   catalog_vars, decode_vars, type_vars, found>>

\* types.profile_to_type(name, auto_create)
ProfileToType(name, auto_create) ==
    /\ c_pc = "registry"
    /\ c_types' = Types_profile_to_type(c_types, name, auto_create).types
    /\ r_last' = [op |-> "profile_to_type", name |-> name, auto_create |-> auto_create,
                  before |-> c_types,
                  result |-> Types_profile_to_type(c_types, name, auto_create).result]
    /\ r_first' = IF name \in DOMAIN c_types'.profile_to_type /\ name \notin DOMAIN r_first
                  THEN DictSet(r_first, name, c_types'.profile_to_type[name])
                  ELSE r_first
    /\ UNCHANGED <<c_pc, c_sheet, c_rows, c_raised, c_blocks,
                   catalog_vars, decode_vars, type_vars, found>>

NextRegistry ==
    \/ \E type \in TypeCandidates : AddType(type)
    \/ \E name \in TypeNames, auto_create \in BOOLEAN : ProfileToType(name, auto_create)

SpecRegistry == InitRegistry /\ [][NextRegistry]_vars

\* C15: __add_type of a type whose name is registered never replaces the entry:
\* with equal sizes the registry is unchanged and nothing is raised, with
\* different sizes an exception is raised and the registry is unchanged; in
\* every reachable registry each name is bound to the first type installed
\* under it
C15_FirstTypeStays ==
    /\ c_types.profile_to_type = r_first
    /\ (r_last.op = "add_type" /\ r_last.type.name \in DOMAIN r_last.before.profile_to_type)
       => /\ c_types = r_last.before
          /\ r_last.before.profile_to_type[r_last.type.name].size = r_last.type.size
                 => r_last.result = None
          /\ r_last.before.profile_to_type[r_last.type.name].size # r_last.type.size
                 => IsRaise(r_last.result)

\* C15 witness: __add_type was handed a type of a registered name and size that
\* differs from the registered type, and returned without raising
C15_Witness ==
    /\ r_last.op = "add_type"
    /\ r_last.type.name \in DOMAIN r_last.before.profile_to_type
    /\ r_last.before.profile_to_type[r_last.type.name] # r_last.type
    /\ r_last.before.profile_to_type[r_last.type.name].size = r_last.type.size
    /\ r_last.result = None
    /\ c_types.profile_to_type[r_last.type.name] # r_last.type

\* C16: profile_to_type(name, auto_create): a registered name gives the
\* registered type and leaves the registry unchanged; with auto_create an
\* absent name that matches the AutoInteger or AutoFloat pattern with a width
\* that can be unpacked installs exactly one new type under that name and
\* returns it, and a later profile_to_type(name) without auto_create gives that
\* type; with auto_create an absent name that matches neither pattern fails
\* and leaves the registry unchanged; without auto_create an absent name
\* always fails and leaves the registry unchanged
C16_AutoCreate ==
    r_last.op = "profile_to_type" =>
        LET before == r_last.before.profile_to_type
            name == r_last.name
            integer == \E m \in AutoInteger_pattern : m.name = name /\ m.g2 \in {8, 16, 32, 64}
            float == \E m \in AutoFloat_pattern : m.name = name /\ m.g1 \in {16, 32, 64}
            matches == Matches(AutoFloat_pattern, name) \/ Matches(AutoInteger_pattern, name)
        IN  /\ name \in DOMAIN before
                   => r_last.result = before[name] /\ c_types = r_last.before
            /\ (name \notin DOMAIN before /\ r_last.auto_create /\ (integer \/ float))
                   => /\ ~IsRaise(r_last.result)
                      /\ r_last.result.name = name
                      /\ r_last.result.cls = (IF float THEN "AutoFloat" ELSE "AutoInteger")
                      /\ c_types.profile_to_type = DictSet(before, name, r_last.result)
                      /\ c_types.base_types = r_last.before.base_types
                      /\ Types_profile_to_type(c_types, name, FALSE)
                             = Step(c_types, r_last.result)
            /\ (name \notin DOMAIN before /\ r_last.auto_create /\ ~matches)
                   => IsRaise(r_last.result) /\ c_types = r_last.before
            /\ (name \notin DOMAIN before /\ ~r_last.auto_create)
                   => IsRaise(r_last.result) /\ c_types = r_last.before

\* C16 witness: profile_to_type('int8', auto_create=True) on a registry without
\* int8 has returned, and int8 is registered
C16_Witness ==
    /\ r_last.op = "profile_to_type" /\ r_last.name = "int8" /\ r_last.auto_create
    /\ "int8" \notin DOMAIN r_last.before.profile_to_type
    /\ "int8" \in DOMAIN c_types.profile_to_type
    /\ r_last.result = c_types.profile_to_type["int8"]

\* C17: when a walk of the Types sheet or of the Messages sheet has returned,
\* every block-header row of the sheet (cell 0 non-empty and not starting with
\* an uppercase letter) has started exactly one Mapping or RowMessage
\* compilation: the row that ends a block is pushed back and examined again by
\* the driver, so no header is consumed by the block before it, and the rows
\* the blocks consumed do not overlap
C17_EveryHeaderStartsOneBlock ==
    c_pc \in {"typed", "done"} =>
        /\ \A i \in 1..Len(c_sheet) :
               IsBlockHeader(c_sheet[i])
                   => Cardinality({b \in 1..Len(c_blocks) : c_blocks[b].header = i}) = 1
        /\ \A b \in 1..Len(c_blocks) :
               /\ IsBlockHeader(c_sheet[c_blocks[b].header])
               /\ b < Len(c_blocks)
                      => Len(c_sheet) - c_blocks[b].left < c_blocks[b + 1].header

(***************************************************************************)
(* One call of Message.raw_to_internal on longer definitions               *)
(* (specification SpecRecord)                                              *)
(***************************************************************************)
\* how many field descriptors a definition of SpecRecord has at most
MaxRecordFields == 2

\* a field workout_step knows (sport, one byte), a dynamic field it knows
\* (target, two bytes), a field no message knows (three bytes)
RecordFieldDescs == {FieldDesc(0, 1, 0), FieldDesc(1, 2, 4), FieldDesc(250, 3, 4)}

RecordDefinitions ==
    (SeqsUpTo(RecordFieldDescs, MaxRecordFields) \ {<<>>}) \cup {HeaderDefinition}

\* the caller has looked up the message of the record: workout_step or HEADER
InitRecord ==
    /\ TypesIdle /\ DecodeIdle /\ CompileIdle
    /\ profile_to_message = Catalog.profile_to_message
    /\ number_to_message = Catalog.number_to_message
    /\ found \in {Catalog.profile_to_message[n] : n \in {"workout_step", "HEADER"}}

NextRecordDecode ==
    \/ \E fields \in RecordDefinitions, endian \in {LITTLE, BIG}, cb \in BOOLEAN :
          \E bytes \in DataOf(fields) : RawToInternal(fields, endian, bytes, cb)
    \/ \E pairs \in CallbackResults : LoopField(pairs)
    \/ Return

SpecRecord == InitRecord /\ [][NextRecordDecode]_vars

\* C18: raw_to_internal takes the field descriptors in the order of the
\* definition, and the bytes of the i-th descriptor are data[o:o + size] with o
\* the sum of the sizes of the descriptors before it, whether the earlier
\* fields were known, unknown, suppressed or decoded to None; the entry of a
\* field is in the result mapping once its iteration ended, and stays there
\* while the later fields are decoded
C18_OffsetIsSumOfSizes ==
    /\ [](pc \in {"loop", "done", "raised"} =>
            LET fields == definition.fields
                before[k \in 0..Len(fields)] ==
                    IF k = 0 THEN 0 ELSE before[k - 1] + fields[k].size
                at == IF pc = "raised" THEN idx + 1 ELSE idx
            IN  /\ idx \in 0..Len(fields)
                /\ offset = before[idx]
                /\ last # NoLast
                       => /\ at \in 1..Len(fields)
                          /\ last.field_desc = fields[at]
                          /\ last.bytes = Slice(data, before[at - 1],
                                                before[at - 1] + fields[at].size)
                /\ (last # NoLast /\ pc # "raised")
                       => /\ last.result.name \in DOMAIN message
                          /\ message[last.result.name] = last.result.value
                /\ (last = NoLast) = (idx = 0 /\ pc # "raised"))
    /\ [][(pc = "loop" /\ pc' \in {"loop", "done", "raised"})
              => /\ DOMAIN message \subseteq DOMAIN message'
                 /\ idx' \in {idx, idx + 1}]_vars

\* C18 witness: a record of two fields was decoded to its end, the first field
\* unknown (three bytes), and the second field, a known one, was handed the
\* last bytes of the data
C18_Witness ==
    /\ pc = "done" /\ idx = 2 /\ Len(definition.fields) = 2
    /\ definition.fields[1].number = 250
    /\ last.known /\ last.field_desc = definition.fields[2]
    /\ offset = Len(data) /\ offset > 3
    /\ last.bytes = SubSeq(data, Len(data) - last.field_desc.size + 1, Len(data))
    /\ Cardinality(DOMAIN message) >= 2

(***************************************************************************)
(* Further properties of the record decode (specification Spec)            *)
(***************************************************************************)
\* C19: an iteration of raw_to_internal stores the base-type fallback entry
\* (key the decimal field number) if and only if the message has no field with
\* the descriptor's number; a lookup that fails while a known field is decoded
\* never gives an unknown-field entry (for a field whose bytes are all in data)
C19_FallbackIffUnknown ==
    (pc \in {"loop", "done"} /\ last # NoLast /\ Len(last.bytes) = last.field_desc.size)
    => ((last.result.name = PyStr(Str(IntOf(last.field_desc.number)))) <=> ~last.known)

\* C20: the two dictionaries of every compiled Mapping are mutual inverses,
\* also when value rows repeat a profile name or an internal value:
\* profile_to_internal(internal_to_profile(v)) = v for every internal value v,
\* and internal_to_profile(profile_to_internal(p)) = p for every profile name p
C20_MappingsAreInverse ==
    \A name \in DOMAIN c_types.profile_to_type :
        LET type == c_types.profile_to_type[name]
        IN  type.cls = "Mapping" =>
                /\ \A v \in DOMAIN type._internal_to_profile :
                       /\ type._internal_to_profile[v] \in DOMAIN type._profile_to_internal
                       /\ type._profile_to_internal[type._internal_to_profile[v]] = v
                /\ \A p \in DOMAIN type._profile_to_internal :
                       /\ type._profile_to_internal[p] \in DOMAIN type._internal_to_profile
                       /\ type._internal_to_profile[type._profile_to_internal[p]] = p

====
